---------------------------- MODULE Spec2Model ----------------------------
(***************************************************************************)
(* Model of the download engine of tauri-mod-manager                       *)
(* (src-tauri/src/mod_downloader/core.rs): HttpDownload::download, the     *)
(* single-stream path, the concurrent aggregation loop, the worker task    *)
(* download_chunk and the chunk partitioner get_chunk_offsets.             *)
(*                                                                         *)
(* The resource served by the remote host is resource_len bytes long; a    *)
(* byte is identified by its absolute offset 0 .. resource_len-1.  A       *)
(* content buffer is modelled by the pair (byte_count, offset) of the      *)
(* bytes it carries.  An Option is a sequence: <<>> is None, <<v>> is      *)
(* Some(v).                                                                *)
(***************************************************************************)
EXTENDS Integers, Sequences, FiniteSets, TLC

VARIABLES
    conf,          \* HttpDownload.conf (Config); has_range: conf.headers holds RANGE
    resource_len,  \* length in bytes of the remote resource (the server's side)
    hooks,         \* HttpDownload.hooks: per hook, the events it was handed in this call
    retries,       \* HttpDownload.retries
    pc,            \* position of the orchestrating thread
    result,        \* what download() returned: "none" while running, "Ok", "Err"
    path,          \* path taken by this call; "direct": concurrent_download called by the user
    resp,          \* headers of the probe response
    range_before,  \* conf.headers held RANGE when this download() call began
    hooks_before,  \* number of hooks registered when this call began
    content_len,   \* concurrent_download: content_len
    count,         \* concurrent_download: count
    data,          \* data channel: (byte_count, offset) messages in flight
    errors,        \* error channel: (start, end) ranges in flight
    queue,         \* worker pool: tasks submitted and not yet started
    running,       \* worker pool: tasks a pool thread has taken, each with its locals
    orphans,       \* pools of calls that returned: their tasks still queued or taken
    ct_len,        \* singlethread_download: ct_len
    cnt,           \* singlethread_download: cnt
    submitted,     \* history: every range handed to worker_pool.execute, in order
    finished,      \* history: every worker task that ended, with how it ended
    taken,         \* history: ranges the orchestrator took from the error channel
    failures,      \* number of fetch failures injected so far
    p_len,         \* partitioner harness: content_len argument
    p_size,        \* partitioner harness: chunk_size argument
    p_out,         \* partitioner harness: returned Vec
    p_done         \* partitioner harness: get_chunk_offsets was applied

vars == <<conf, resource_len, hooks, retries, pc, result, path, resp,
          range_before, hooks_before, content_len, count, data, errors,
          queue, running, orphans, ct_len, cnt, submitted, finished, taken, failures,
          p_len, p_size, p_out, p_done>>

dlvars == <<conf, resource_len, hooks, retries, pc, result, path, resp,
            range_before, hooks_before, content_len, count, data, errors,
            queue, running, orphans, ct_len, cnt, submitted, finished, taken, failures>>

pvars == <<p_len, p_size, p_out, p_done>>

(***************************************************************************)
(* Bounds of the model.                                                    *)
(***************************************************************************)
MaxLen == 3        \* resource lengths 0 .. MaxLen
MaxHooks == 2      \* at most this many events_hook calls
MaxFailures == 2   \* at most this many failing fetches over a behaviour
MaxPartLen == 24   \* partitioner harness: content_len in 1 .. MaxPartLen
MaxPartSize == 8   \* partitioner harness: chunk_size in 1 .. MaxPartSize
MaxOrphanPools == 2 \* a further call starts with fewer than this many pools left behind

\* Values drawn for conf.chunk_size, conf.max_retries and conf.num_workers.
ChunkSizes == 1..2
RetryBudgets == 0..1
WorkerCounts == 1..2

None == <<>>
Some(v) == <<v>>
Min(a, b) == IF a < b THEN a ELSE b

(***************************************************************************)
(* get_chunk_offsets (core.rs 220-237).                                    *)
(***************************************************************************)
GetChunkOffsetsOverlap(len, size) ==
    LET no_of_chunks == len \div size
        sizes == [i \in 1..no_of_chunks |->
                    LET chunk == i - 1
                        bound == IF chunk = no_of_chunks - 1
                                 THEN len
                                 ELSE (chunk + 1) * size
                    IN  <<chunk * size, bound>>]
    IN  IF sizes = <<>> THEN <<<<0, len>>>> ELSE sizes

GetChunkOffsetsCeil(len, size) ==
    LET no_of_chunks == (len + size - 1) \div size
        sizes == [i \in 1..no_of_chunks |->
                    LET chunk == i - 1
                        bound == IF chunk = no_of_chunks - 1
                                 THEN len
                                 ELSE ((chunk + 1) * size) - 1
                    IN  <<chunk * size, bound>>]
    IN  IF sizes = <<>> THEN <<<<0, len>>>> ELSE sizes

get_chunk_offsets(len, size) ==
    LET no_of_chunks == len \div size
        sizes == [i \in 1..no_of_chunks |->
                    LET chunk == i - 1
                        bound == IF chunk = no_of_chunks - 1
                                 THEN len
                                 ELSE ((chunk + 1) * size) - 1
                    IN  <<chunk * size, bound>>]
    IN  IF sizes = <<>> THEN <<<<0, len>>>> ELSE sizes

(***************************************************************************)
(* Partitioner harness: get_chunk_offsets applied to bounded arguments.    *)
(***************************************************************************)
PartLens == (1..MaxPartLen) \cup {500, 2500}
PartSizes == (1..MaxPartSize) \cup {1000}

Partition ==
    /\ ~p_done
    /\ p_out' = get_chunk_offsets(p_len, p_size)
    /\ p_done' = TRUE
    /\ UNCHANGED <<p_len, p_size>>
    /\ UNCHANGED dlvars


(***************************************************************************)
(* Configurations and the state after HttpDownload::new (core.rs 73-81).   *)
(***************************************************************************)
\* The i-th smallest element of a finite set of numbers.
Nth(S, i) == CHOOSE s \in S : Cardinality({t \in S : t < s}) = i - 1

\* The ascending chunk list whose chunks start at the offsets in starts and
\* whose last chunk ends at last.
CoverOf(starts, last) ==
    [i \in 1..Cardinality(starts) |->
        <<Nth(starts, i),
          IF i = Cardinality(starts) THEN last ELSE Nth(starts, i + 1) - 1>>]

\* The chunk lists a caller may hand over as resume state for a resource of
\* len bytes of which the first lo are on disk: ascending, contiguous, from
\* lo to the last byte (written len - 1, or len as the partitioner writes it).
Covers(lo, len) ==
    IF lo >= len THEN {<<>>}
    ELSE {CoverOf({lo} \cup cuts, last) :
             cuts \in SUBSET ((lo + 1)..(len - 1)), last \in {len - 1, len}}

UnwrapOr(opt, default) == IF opt = None THEN default ELSE opt[1]

NoResp == [accept_ranges |-> None, content_length |-> None]

\* The fields of a freshly constructed HttpDownload for configuration c and
\* a remote resource of len bytes: no hooks, retries = 0.
Constructed(c, len) ==
    /\ conf = c
    /\ resource_len = len
    /\ hooks = <<>>
    /\ retries = 0
    /\ pc = "idle"
    /\ result = "none"
    /\ path = "none"
    /\ resp = NoResp
    /\ range_before = c.has_range
    /\ hooks_before = 0
    /\ content_len = 0
    /\ count = 0
    /\ data = <<>>
    /\ errors = <<>>
    /\ queue = <<>>
    /\ running = {}
    /\ orphans = <<>>
    /\ ct_len = None
    /\ cnt = 0
    /\ submitted = <<>>
    /\ finished = {}
    /\ taken = <<>>
    /\ failures = 0

Init ==
    /\ \E len \in 0..MaxLen,
          concurrent \in BOOLEAN, has_range \in BOOLEAN,
          max_retries \in RetryBudgets,
          num_workers \in WorkerCounts,
          chunk_size \in ChunkSizes :
       \E bytes_on_disk \in {None} \cup {Some(b) : b \in 1..(len - 1)} :
       \E chunk_offsets \in {None} \cup
                {Some(c) : c \in Covers(UnwrapOr(bytes_on_disk, 0), len)} :
          Constructed([concurrent |-> concurrent,
                       has_range |-> has_range,
                       max_retries |-> max_retries,
                       num_workers |-> num_workers,
                       bytes_on_disk |-> bytes_on_disk,
                       chunk_offsets |-> chunk_offsets,
                       chunk_size |-> chunk_size], len)
    /\ p_len = 0
    /\ p_size = 0
    /\ p_out = <<>>
    /\ p_done = FALSE

(***************************************************************************)
(* The remote host.  It serves resource_len bytes.  A request that carries *)
(* "Range: bytes=s-e" to a host that honours ranges is answered with the   *)
(* bytes s .. min(e, resource_len - 1).  The caller's own Range header,    *)
(* when conf.headers holds one, asks to resume from bytes_on_disk.         *)
(***************************************************************************)
CallerRangeStart == UnwrapOr(conf.bytes_on_disk, 0)

\* First offset and length of the body answering a request that carries
\* conf.headers, given whether these hold RANGE and the host honours it.
BodyStart(has_range, ssb) == IF has_range /\ ssb THEN CallerRangeStart ELSE 0
BodyLen(has_range, ssb) == resource_len - BodyStart(has_range, ssb)

\* Bytes the response to a worker's ranged request still holds once the
\* worker has read up to (not including) offset at.
ChunkBodyLeft(offsets, at) ==
    LET last == Min(offsets[2], resource_len - 1)
    IN  IF at > last THEN 0 ELSE last - at + 1

\* str::parse::<u64>() of a header value: a negative number stands for a
\* value that is not a decimal number.
ParseU64(v) == IF v >= 0 THEN Some(v) ELSE None

(***************************************************************************)
(* Hooks (core.rs 32-56, 134-137): hooks[h] is the sequence of events hook *)
(* h was handed during the current download() call.                        *)
(***************************************************************************)
Event(ev, byte_count, offset) ==
    [ev |-> ev, byte_count |-> byte_count, offset |-> offset]

\* for hook in &self.hooks { hook.borrow_mut().on_x(); }
Notify(hs, e) == [h \in 1..Len(hs) |-> Append(hs[h], e)]

\* for hook in &self.hooks { hook.borrow_mut().on_x(..)?; }
\* fail_at = 0: every handler returns Ok; otherwise hook fail_at is the
\* first whose handler returns Err, and `?` leaves the loop there.
NotifyFallible(hs, e, fail_at) ==
    [h \in 1..Len(hs) |->
        IF fail_at = 0 \/ h <= fail_at THEN Append(hs[h], e) ELSE hs[h]]

\* events_hook (134-137): pushes the hook; it has been handed nothing yet.
EventsHookBody ==
    /\ Len(hooks) < MaxHooks
    /\ hooks' = Append(hooks, <<>>)
    /\ UNCHANGED <<conf, resource_len, orphans, retries, pc, result, path, resp,
                   range_before, hooks_before, content_len, count, data,
                   errors, queue, running, ct_len, cnt, submitted, finished,
                   taken, failures>>
    /\ UNCHANGED pvars

\* events_hook called on a newly constructed object.
events_hook ==
    /\ pc = "idle"
    /\ EventsHookBody

\* events_hook called after an earlier call on the object returned
\* (&mut self: never while a call is running).
EventsHookAgain ==
    /\ pc = "done"
    /\ EventsHookBody

(***************************************************************************)
(* HttpDownload::download (core.rs 83-132).                                *)
(***************************************************************************)
\* 96-99: the host is resume-capable only if Accept-Ranges is "bytes".
ServerSupportsBytes(accept_ranges) == accept_ranges = Some("bytes")

\* 101, 105-107: when on_server_supports_resume is fired.
FiresResumeAlways(ssb, has_range, concurrent) == ssb
FiresResume(ssb, has_range, concurrent) == ssb /\ has_range

\* 101-104: when the caller's RANGE header is removed.
DropsRange(ssb, has_range, concurrent) == ssb /\ has_range /\ concurrent

\* 121: when the concurrent path is taken.
TakesConcurrentNoLength(ssb, concurrent, has_content_length) ==
    ssb /\ concurrent
TakesConcurrent(ssb, concurrent, has_content_length) ==
    ssb /\ concurrent /\ has_content_length

\* What returning from a call does to the transfer state: both receivers
\* and the pool handle are dropped with concurrent_download's frame
\* (173-181).  That ends no task: the pool's threads go on with the tasks
\* they have taken and then with the queued ones, on their own.
Abandoned ==
    IF queue = <<>> /\ running = {} THEN <<>>
    ELSE << [queue |-> queue, running |-> running] >>

DropTransfer ==
    /\ data' = <<>>
    /\ errors' = <<>>
    /\ queue' = <<>>
    /\ running' = {}
    /\ orphans' = orphans \o Abandoned

\* The Content-Length header of a response whose body is len bytes long.
\* kind "absent": no header; "bad": a value that is no decimal number.
ContentLengthHeader(kind, len) ==
    CASE kind = "absent" -> None
      [] kind = "ok" -> Some(len)
      [] kind = "bad" -> Some(-1)

HeaderKinds == {"absent", "ok", "bad"}
AcceptRanges == {None, Some("bytes"), Some("none")}

\* 83-125, the body of download().  sent: the probe request was answered
\* (84-93); built: the second request was built (110-115).  The fields of
\* self are read as the last call left them: nothing here assigns
\* self.retries, and a Range header removed at line 103 stays removed.
DownloadBody(sent, accept_ranges, kind, built) ==
    /\ LET ssb == ServerSupportsBytes(accept_ranges)
           fire == FiresResume(ssb, conf.has_range, conf.concurrent)
           drop == DropsRange(ssb, conf.has_range, conf.concurrent)
           fresh == [h \in 1..Len(hooks) |-> <<>>]
           resumed == IF fire
                      THEN Notify(fresh, Event("on_server_supports_resume", 0, 0))
                      ELSE fresh
           length == ContentLengthHeader(kind, BodyLen(conf.has_range, ssb))
       IN  /\ range_before' = conf.has_range
           /\ hooks_before' = Len(hooks)
           /\ IF ~sent
              THEN /\ hooks' = fresh
                   /\ resp' = NoResp
                   /\ path' = "none"
                   /\ result' = "Err"
                   /\ pc' = "done"
                   /\ UNCHANGED conf
              ELSE /\ resp' = [accept_ranges |-> accept_ranges,
                               content_length |-> length]
                   /\ conf' = [conf EXCEPT !.has_range = IF drop THEN FALSE ELSE @]
                   /\ IF ~built
                      THEN /\ hooks' = resumed
                           /\ path' = "none"
                           /\ result' = "Err"
                           /\ pc' = "done"
                      ELSE /\ hooks' = Notify(resumed, Event("on_headers", 0, 0))
                           /\ path' = IF TakesConcurrent(ssb, conf.concurrent,
                                                         length # None)
                                      THEN "concurrent" ELSE "single"
                           /\ result' = "none"
                           /\ pc' = path'
    /\ content_len' = 0
    /\ count' = 0
    /\ ct_len' = None
    /\ cnt' = 0
    /\ submitted' = <<>>
    /\ finished' = {}
    /\ taken' = <<>>
    /\ DropTransfer
    /\ UNCHANGED <<resource_len, retries, failures>>
    /\ UNCHANGED pvars

\* download() called on a newly constructed object.
Download(sent, accept_ranges, kind, built) ==
    /\ pc = "idle"
    /\ DownloadBody(sent, accept_ranges, kind, built)

\* download() called again on the same object after an earlier call
\* returned (83: &mut self).
DownloadAgain(sent, accept_ranges, kind, built) ==
    /\ pc = "done"
    /\ Len(orphans) < MaxOrphanPools
    /\ DownloadBody(sent, accept_ranges, kind, built)

FinishSilent ==
    /\ pc = "finish"
    /\ result' = "Ok"
    /\ pc' = "done"
    /\ UNCHANGED <<conf, resource_len, orphans, hooks, retries, path, resp, range_before, hooks_before,
                   content_len, count, data, errors, queue, running, ct_len,
                   cnt, submitted, finished, taken, failures>>
    /\ UNCHANGED pvars

\* 127-131: both paths returned Ok.
Finish ==
    /\ pc = "finish"
    /\ hooks' = Notify(hooks, Event("on_finish", 0, 0))
    /\ result' = "Ok"
    /\ pc' = "done"
    /\ UNCHANGED <<conf, resource_len, orphans, retries, path, resp, range_before, hooks_before,
                   content_len, count, data, errors, queue, running, ct_len,
                   cnt, submitted, finished, taken, failures>>
    /\ UNCHANGED pvars

(***************************************************************************)
(* singlethread_download (core.rs 139-162) and send_content (164-170).     *)
(***************************************************************************)
\* 140-146.  executed: client.execute(req) answered; kind: the
\* Content-Length header of this second response, which is the only one
\* this path reads (141).
SingleStart(executed, kind) ==
    /\ pc = "single"
    /\ LET ssb == ServerSupportsBytes(resp.accept_ranges)
           header == ContentLengthHeader(kind, BodyLen(conf.has_range, ssb))
           parsed == IF header = None THEN None ELSE ParseU64(header[1])
       IN  IF ~executed \/ (header # None /\ parsed = None)
           THEN /\ result' = "Err"
                /\ pc' = "done"
                /\ UNCHANGED ct_len
           ELSE /\ ct_len' = parsed
                /\ pc' = "read"
                /\ UNCHANGED result
    /\ cnt' = 0
    /\ UNCHANGED <<conf, resource_len, orphans, hooks, retries, path, resp, range_before, hooks_before,
                   content_len, count, data, errors, queue, running,
                   submitted, finished, taken, failures>>
    /\ UNCHANGED pvars

\* The sizes resp.read may return into a buffer of capacity bytes when left
\* bytes of the body remain: 0 only at the end of the body or for an empty
\* buffer, otherwise any positive size that fits.
ReadSizes(capacity, left) ==
    IF Min(capacity, left) = 0 THEN {0} ELSE 1..Min(capacity, left)

\* 147-160, one iteration whose read returns Ok(bcount).
SingleRead(bcount, fail_at) ==
    /\ pc = "read"
    /\ LET ssb == ServerSupportsBytes(resp.accept_ranges)
           left == BodyLen(conf.has_range, ssb) - cnt
           at == BodyStart(conf.has_range, ssb) + cnt
       IN  /\ bcount \in ReadSizes(conf.chunk_size, left)
           /\ cnt' = cnt + bcount
           /\ IF bcount # 0
              THEN /\ hooks' = NotifyFallible(hooks, Event("on_content", bcount, at),
                                              fail_at)
                   /\ IF fail_at # 0
                      THEN /\ result' = "Err"
                           /\ pc' = "done"
                      ELSE /\ pc' = IF Some(cnt') = ct_len THEN "finish" ELSE "read"
                           /\ UNCHANGED result
              ELSE /\ fail_at = 0
                   /\ pc' = "finish"
                   /\ UNCHANGED <<hooks, result>>
    /\ UNCHANGED <<conf, resource_len, orphans, retries, path, resp, range_before, hooks_before,
                   content_len, count, data, errors, queue, running, ct_len,
                   submitted, finished, taken, failures>>
    /\ UNCHANGED pvars

SingleReadErrorRetried ==
    /\ pc = "read"
    /\ failures < MaxFailures
    /\ failures' = failures + 1
    /\ retries' = retries + 1
    /\ UNCHANGED <<conf, resource_len, orphans, hooks, pc, result, path, resp,
                   range_before, hooks_before, content_len, count, data, errors, queue,
                   running, ct_len, cnt, submitted, finished, taken>>
    /\ UNCHANGED pvars

\* 149: the read returns Err; `?` returns it from download().
SingleReadError ==
    /\ pc = "read"
    /\ failures < MaxFailures
    /\ failures' = failures + 1
    /\ result' = "Err"
    /\ pc' = "done"
    /\ UNCHANGED <<conf, resource_len, orphans, hooks, retries, path, resp, range_before, hooks_before,
                   content_len, count, data, errors, queue, running, ct_len,
                   cnt, submitted, finished, taken>>
    /\ UNCHANGED pvars

(***************************************************************************)
(* download_chunk (core.rs 241-287): one task of the worker pool.          *)
(***************************************************************************)
\* 259: chunk_sz, the capacity of the read buffer (262).
ChunkSz(offsets) == offsets[2] - offsets[1]

\* 283: the range a failing task reports: (start_offset, end_offset).
FailedRangeOriginal(offsets, start_offset) == <<offsets[1], offsets[2]>>
FailedRange(offsets, start_offset) == <<start_offset, offsets[2]>>

Ended(offsets, start_offset, ok) ==
    [offsets |-> offsets, start_offset |-> start_offset, ok |-> ok]

\* The locals of a task a pool thread has just taken (279-280).  phase
\* "execute": up to the answer of Client::execute (253-258); "read": in the
\* read loop (261-275).
Task(offsets) ==
    [offsets |-> offsets, start_offset |-> offsets[1], cnt |-> 0,
     phase |-> "execute"]

\* A free pool thread takes the oldest queued task.
WorkerStart ==
    /\ queue # <<>>
    /\ Cardinality(running) < conf.num_workers
    /\ running' = running \cup {Task(Head(queue))}
    /\ queue' = Tail(queue)
    /\ UNCHANGED <<conf, resource_len, orphans, hooks, retries, pc, result, path,
                   resp, range_before, hooks_before, content_len, count, data,
                   errors, ct_len, cnt, submitted, finished, taken, failures>>
    /\ UNCHANGED pvars

\* 253-258: the request of task w is answered (connected), or building or
\* sending it fails and the task reports its range (283) and ends.
WorkerExecute(w, connected) ==
    /\ w \in running
    /\ w.phase = "execute"
    /\ IF connected
       THEN /\ running' = (running \ {w}) \cup {[w EXCEPT !.phase = "read"]}
            /\ UNCHANGED <<errors, finished, failures>>
       ELSE /\ failures < MaxFailures
            /\ failures' = failures + 1
            /\ errors' = Append(errors, FailedRange(w.offsets, w.start_offset))
            /\ finished' = finished \cup {Ended(w.offsets, w.start_offset, FALSE)}
            /\ running' = running \ {w}
    /\ UNCHANGED <<conf, resource_len, orphans, hooks, retries, pc, result, path,
                   resp, range_before, hooks_before, content_len, count, data,
                   queue, ct_len, cnt, submitted, taken>>
    /\ UNCHANGED pvars

\* 261-275, one iteration of task w whose read returns Ok(byte_count).
WorkerRead(w, byte_count) ==
    /\ w \in running
    /\ w.phase = "read"
    /\ byte_count \in ReadSizes(ChunkSz(w.offsets),
                                ChunkBodyLeft(w.offsets, w.start_offset))
    /\ LET cnt1 == w.cnt + byte_count
           next == [w EXCEPT !.cnt = cnt1, !.start_offset = @ + byte_count]
       IN  IF byte_count # 0
           THEN /\ data' = Append(data, <<byte_count, w.start_offset>>)
                /\ IF cnt1 = ChunkSz(w.offsets) + 1
                   THEN /\ running' = running \ {w}
                        /\ finished' = finished \cup
                               {Ended(w.offsets, next.start_offset, TRUE)}
                   ELSE /\ running' = (running \ {w}) \cup {next}
                        /\ UNCHANGED finished
           ELSE /\ running' = running \ {w}
                /\ finished' = finished \cup {Ended(w.offsets, w.start_offset, TRUE)}
                /\ UNCHANGED data
    /\ UNCHANGED <<conf, resource_len, orphans, hooks, retries, pc, result, path,
                   resp, range_before, hooks_before, content_len, count, errors,
                   queue, ct_len, cnt, submitted, taken, failures>>
    /\ UNCHANGED pvars

\* 263, 281-285: a read of task w returns Err; the task reports the range
\* (start_offset, end_offset) on the error channel and ends.
WorkerReadError(w) ==
    /\ w \in running
    /\ w.phase = "read"
    /\ failures < MaxFailures
    /\ failures' = failures + 1
    /\ errors' = Append(errors, FailedRange(w.offsets, w.start_offset))
    /\ running' = running \ {w}
    /\ finished' = finished \cup {Ended(w.offsets, w.start_offset, FALSE)}
    /\ UNCHANGED <<conf, resource_len, orphans, hooks, retries, pc, result, path,
                   resp, range_before, hooks_before, content_len, count, data,
                   queue, ct_len, cnt, submitted, taken>>
    /\ UNCHANGED pvars

(***************************************************************************)
(* Tasks of a pool whose call has returned.  Both receivers are gone: a    *)
(* send fails (267, 283) and the failure of the send at 283 is ignored.    *)
(***************************************************************************)
\* The pools that still hold a task; a pool's threads end with its last one.
Prune(pools) == SelectSeq(pools, LAMBDA p : p.queue # <<>> \/ p.running # {})

\* A free thread of pool i takes its oldest queued task.
OrphanStart(i) ==
    /\ i \in 1..Len(orphans)
    /\ orphans[i].queue # <<>>
    /\ Cardinality(orphans[i].running) < conf.num_workers
    /\ orphans' = [orphans EXCEPT ![i] =
                      [queue |-> Tail(@.queue),
                       running |-> @.running \cup {Task(Head(@.queue))}]]
    /\ UNCHANGED <<conf, resource_len, hooks, retries, pc, result, path, resp,
                   range_before, hooks_before, content_len, count, data, errors,
                   queue, running, ct_len, cnt, submitted, finished, taken,
                   failures>>
    /\ UNCHANGED pvars

\* 253-258 in task w of pool i: answered, or failed and the task ends.
OrphanExecute(i, w, connected) ==
    /\ i \in 1..Len(orphans)
    /\ w \in orphans[i].running
    /\ w.phase = "execute"
    /\ orphans' = Prune([orphans EXCEPT ![i].running =
                      IF connected
                      THEN (@ \ {w}) \cup {[w EXCEPT !.phase = "read"]}
                      ELSE @ \ {w}])
    /\ UNCHANGED <<conf, resource_len, hooks, retries, pc, result, path, resp,
                   range_before, hooks_before, content_len, count, data, errors,
                   queue, running, ct_len, cnt, submitted, finished, taken,
                   failures>>
    /\ UNCHANGED pvars

\* 263-270 in task w of pool i: the read fails, or returns no byte, or
\* returns bytes whose send fails; the task ends in each case.
OrphanRead(i, w) ==
    /\ i \in 1..Len(orphans)
    /\ w \in orphans[i].running
    /\ w.phase = "read"
    /\ orphans' = Prune([orphans EXCEPT ![i].running = @ \ {w}])
    /\ UNCHANGED <<conf, resource_len, hooks, retries, pc, result, path, resp,
                   range_before, hooks_before, content_len, count, data, errors,
                   queue, running, ct_len, cnt, submitted, finished, taken,
                   failures>>
    /\ UNCHANGED pvars

(***************************************************************************)
(* concurrent_download (core.rs 172-218).                                  *)
(***************************************************************************)
\* 173-190: parse the content length, choose the chunk list, submit every
\* chunk to the pool, initialise count.
ConcurrentEntry(ct_val) ==
    LET parsed == ParseU64(ct_val)
    IN  IF parsed = None
        THEN /\ result' = "Err"
             /\ pc' = "done"
             /\ content_len' = 0
             /\ count' = 0
             /\ queue' = <<>>
             /\ submitted' = <<>>
        ELSE LET chunk_offsets ==
                     IF conf.chunk_offsets = None
                     THEN get_chunk_offsets(parsed[1], conf.chunk_size)
                     ELSE conf.chunk_offsets[1]
             IN  /\ content_len' = parsed[1]
                 /\ queue' = chunk_offsets
                 /\ submitted' = chunk_offsets
                 /\ count' = UnwrapOr(conf.bytes_on_disk, 0)
                 /\ pc' = "loop"
                 /\ result' = "none"

\* 123: download() calls concurrent_download with the Content-Length value
\* of the probe response.
ConcurrentStart ==
    /\ pc = "concurrent"
    /\ resp.content_length # None
    /\ ConcurrentEntry(resp.content_length[1])
    /\ UNCHANGED <<conf, resource_len, orphans, hooks, retries, path, resp, range_before,
                   hooks_before, data, errors, running, ct_len, cnt, finished,
                   taken, failures>>
    /\ UNCHANGED pvars

\* The Content-Length values a caller of the public concurrent_download
\* passes: the length of the resource, or a value that does not parse.
CallerLengths == {-1, resource_len}

\* 172: concurrent_download is public; called by the user of the object it
\* runs 173-217 with the caller's ct_val, without the probe, on_headers or
\* on_finish of download().
ConcurrentDownloadBody(ct_val) ==
    /\ ConcurrentEntry(ct_val)
    /\ path' = "direct"
    /\ hooks' = [h \in 1..Len(hooks) |-> <<>>]
    /\ hooks_before' = Len(hooks)
    /\ resp' = NoResp
    /\ ct_len' = None
    /\ cnt' = 0
    /\ finished' = {}
    /\ taken' = <<>>
    /\ UNCHANGED <<conf, resource_len, orphans, retries, range_before, data, errors,
                   running, failures>>
    /\ UNCHANGED pvars

\* concurrent_download called on a newly constructed object.
concurrent_download(ct_val) ==
    /\ pc = "idle"
    /\ ConcurrentDownloadBody(ct_val)

\* concurrent_download called after an earlier call on the object returned.
ConcurrentDownloadAgain(ct_val) ==
    /\ pc = "done"
    /\ Len(orphans) < MaxOrphanPools
    /\ ConcurrentDownloadBody(ct_val)

\* 196: count += byte_count.
AddCountOne(total, byte_count) == total + 1
AddCount(total, byte_count) == total + byte_count

\* 204: whether on_max_retries is fired for the failure being processed,
\* tested on the counter before it is incremented (209).
MaxRetriesExceeded(n, max_retries) == n > max_retries

\* 192-194: the exit test holds; concurrent_download returns Ok.
LoopExit ==
    /\ pc = "loop"
    /\ count = content_len
    /\ IF path = "direct"
       THEN /\ pc' = "done"
            /\ result' = "Ok"
       ELSE /\ pc' = "finish"
            /\ UNCHANGED result
    /\ DropTransfer
    /\ UNCHANGED <<conf, resource_len, hooks, retries, path, resp,
                   range_before, hooks_before, content_len, count, ct_len, cnt,
                   submitted, finished, taken, failures>>
    /\ UNCHANGED pvars

\* 195-200: data_rx.recv() returns the oldest data message, count is
\* advanced and the hooks are handed the message.
LoopRecv(fail_at) ==
    /\ pc = "loop"
    /\ count # content_len
    /\ data # <<>>
    /\ LET byte_count == Head(data)[1]
           offset == Head(data)[2]
       IN  /\ count' = AddCount(count, byte_count)
           /\ hooks' = NotifyFallible(hooks,
                          Event("on_concurrent_content", byte_count, offset),
                          fail_at)
    /\ IF fail_at # 0
       THEN /\ result' = "Err"
            /\ pc' = "done"
            /\ DropTransfer
       ELSE /\ data' = Tail(data)
            /\ pc' = "poll"
            /\ UNCHANGED <<result, errors, queue, running, orphans>>
    /\ UNCHANGED <<conf, resource_len, retries, path, resp, range_before,
                   hooks_before, content_len, ct_len, cnt, submitted, finished,
                   taken, failures>>
    /\ UNCHANGED pvars

LoopPollFatal ==
    /\ pc = "poll"
    /\ IF errors = <<>>
       THEN /\ pc' = "loop"
            /\ UNCHANGED <<hooks, result, errors, retries, queue, submitted,
                           taken, data, running, orphans>>
       ELSE IF MaxRetriesExceeded(retries, conf.max_retries)
            THEN /\ hooks' = Notify(hooks, Event("on_max_retries", 0, 0))
                 /\ result' = "Err"
                 /\ pc' = "done"
                 /\ DropTransfer
                 /\ UNCHANGED <<retries, submitted, taken>>
            ELSE /\ pc' = "loop"
                 /\ retries' = retries + 1
                 /\ errors' = Tail(errors)
                 /\ queue' = Append(queue, Head(errors))
                 /\ submitted' = Append(submitted, Head(errors))
                 /\ taken' = Append(taken, Head(errors))
                 /\ UNCHANGED <<hooks, result, data, running, orphans>>
    /\ UNCHANGED <<conf, resource_len, path, resp, range_before, hooks_before,
                   content_len, count, ct_len, cnt, finished, failures>>
    /\ UNCHANGED pvars

\* 201-215: the timed wait on the error channel.  A range that is there is
\* taken: on_max_retries is fired when the budget is exceeded, the counter
\* is incremented and the range is submitted as a new task.
LoopPoll ==
    /\ pc = "poll"
    /\ pc' = "loop"
    /\ IF errors = <<>>
       THEN UNCHANGED <<hooks, errors, retries, queue, submitted, taken>>
       ELSE /\ hooks' = IF MaxRetriesExceeded(retries, conf.max_retries)
                        THEN Notify(hooks, Event("on_max_retries", 0, 0))
                        ELSE hooks
            /\ retries' = retries + 1
            /\ errors' = Tail(errors)
            /\ queue' = Append(queue, Head(errors))
            /\ submitted' = Append(submitted, Head(errors))
            /\ taken' = Append(taken, Head(errors))
    /\ UNCHANGED <<conf, resource_len, orphans, result, path, resp,
                   range_before, hooks_before, content_len, count, data,
                   running, ct_len, cnt, finished, failures>>
    /\ UNCHANGED pvars

(***************************************************************************)
(* Specifications.                                                         *)
(***************************************************************************)
Orchestrator ==
    \/ \E sent \in BOOLEAN, accept_ranges \in AcceptRanges,
          kind \in HeaderKinds, built \in BOOLEAN :
          Download(sent, accept_ranges, kind, built)
    \/ \E executed \in BOOLEAN, kind \in HeaderKinds : SingleStart(executed, kind)
    \/ \E bcount \in {0} \cup ChunkSizes, fail_at \in 0..Len(hooks) :
          SingleRead(bcount, fail_at)
    \/ SingleReadError
    \/ ConcurrentStart
    \/ \E fail_at \in 0..Len(hooks) : LoopRecv(fail_at)
    \/ LoopPoll
    \/ LoopExit
    \/ Finish

Workers ==
    \/ WorkerStart
    \/ \E w \in running, connected \in BOOLEAN : WorkerExecute(w, connected)
    \/ \E w \in running, byte_count \in 0..(MaxLen + 1) : WorkerRead(w, byte_count)
    \/ \E w \in running : WorkerReadError(w)

Orphans ==
    \E i \in 1..Len(orphans) :
        \/ OrphanStart(i)
        \/ \E w \in orphans[i].running, connected \in BOOLEAN :
              OrphanExecute(i, w, connected)
        \/ \E w \in orphans[i].running : OrphanRead(i, w)

Next == events_hook \/ Orchestrator \/ Workers \/ Orphans

Spec == Init /\ [][Next]_vars

\* The partitioner on its own.
PartInit ==
    /\ p_len \in PartLens
    /\ p_size \in PartSizes
    /\ p_out = <<>>
    /\ p_done = FALSE
    /\ Constructed([concurrent |-> TRUE, has_range |-> FALSE, max_retries |-> 0,
                    num_workers |-> 1, bytes_on_disk |-> None,
                    chunk_offsets |-> None, chunk_size |-> 1], 1)

PartNext == Partition

PartSpec == PartInit /\ [][PartNext]_vars

\* The object is used for any number of calls of its public functions, one
\* after the other: download(), events_hook and concurrent_download.  It is
\* constructed for a download from the start (no Range header, bytes_on_disk
\* and chunk_offsets absent).
ReuseInit ==
    /\ Init
    /\ ~conf.has_range
    /\ conf.bytes_on_disk = None
    /\ conf.chunk_offsets = None

ReuseNext ==
    \/ Next
    \/ \E sent \in BOOLEAN, accept_ranges \in AcceptRanges, kind \in HeaderKinds,
          built \in BOOLEAN : DownloadAgain(sent, accept_ranges, kind, built)
    \/ \E ct_val \in CallerLengths : concurrent_download(ct_val)
    \/ \E ct_val \in CallerLengths : ConcurrentDownloadAgain(ct_val)
    \/ EventsHookAgain

ReuseSpec == ReuseInit /\ [][ReuseNext]_vars

\* The same for every configuration the object can be constructed with.
ObjectSpec == Init /\ [][ReuseNext]_vars

\* The scheduling the threads give: a pool thread that can take a step and
\* an orchestrating thread that is inside download() eventually do.
InsideDownload ==
    \/ \E executed \in BOOLEAN, kind \in HeaderKinds : SingleStart(executed, kind)
    \/ \E bcount \in {0} \cup ChunkSizes, fail_at \in 0..Len(hooks) :
          SingleRead(bcount, fail_at)
    \/ ConcurrentStart
    \/ \E fail_at \in 0..Len(hooks) : LoopRecv(fail_at)
    \/ LoopPoll
    \/ LoopExit
    \/ Finish

FairSpec == Init /\ [][Next]_vars /\ WF_vars(Workers) /\ WF_vars(InsideDownload)

(***************************************************************************)
(* What the hooks were handed.                                             *)
(***************************************************************************)
Hooks == 1..hooks_before

RECURSIVE SumBytes(_, _)
\* Sum of byte_count over the events of kind ev in log.
SumBytes(log, ev) ==
    IF log = <<>> THEN 0
    ELSE (IF Head(log).ev = ev THEN Head(log).byte_count ELSE 0)
         + SumBytes(Tail(log), ev)

\* Number of events of kind ev hook h was handed.
Fired(h, ev) == Cardinality({i \in 1..Len(hooks[h]) : hooks[h][i].ev = ev})

\* Number of on_concurrent_content events handed to hook h that carry the
\* byte at offset o.
DeliveredTimes(h, o) ==
    Cardinality({i \in 1..Len(hooks[h]) :
        /\ hooks[h][i].ev = "on_concurrent_content"
        /\ hooks[h][i].offset <= o
        /\ o < hooks[h][i].offset + hooks[h][i].byte_count})

BytesOnDisk == UnwrapOr(conf.bytes_on_disk, 0)

\* The orchestrating thread is in the aggregation loop (191-215).
InLoop == pc \in {"loop", "poll"}

(***************************************************************************)
(* Claims.                                                                 *)
(***************************************************************************)
\* C1: whenever download() returns success on the concurrent path, every
\* hook was handed every byte offset from bytes_on_disk (0 when absent) to
\* the last byte of the resource exactly once through on_concurrent_content:
\* none is missing and none was handed twice.
C1_EveryByteExactlyOnce ==
    (result = "Ok" /\ path = "concurrent") =>
        \A h \in Hooks :
            /\ \A o \in BytesOnDisk..(resource_len - 1) : DeliveredTimes(h, o) = 1
            /\ \A o \in 0..(resource_len - 1) : DeliveredTimes(h, o) <= 1

\* C2: whenever a failed range waits on the error channel while the
\* aggregation loop of a download() call runs, the orchestrator eventually takes a further range
\* from the error channel (and resubmits it), unless the loop has ended.
C2_FailedRangeEventuallyTaken ==
    \A k \in 0..MaxFailures :
        (InLoop /\ path = "concurrent" /\ errors # <<>> /\ Len(taken) = k)
            ~> (Len(taken) > k \/ ~InLoop)

\* C3 as stated: once the aggregation loop has ended through its exit test,
\* the byte_count values handed to on_concurrent_content sum up to
\* content_length.
C3_SumIsContentLength ==
    (path = "concurrent" /\ pc = "finish") =>
        \A h \in Hooks :
            SumBytes(hooks[h], "on_concurrent_content") = content_len

\* C3 as amended: once the aggregation loop has ended through its exit test,
\* the byte_count values handed to on_concurrent_content sum up to
\* content_length minus bytes_on_disk (0 when absent).
C3_SumIsRemainingLength ==
    (path = "concurrent" /\ pc = "finish") =>
        \A h \in Hooks :
            SumBytes(hooks[h], "on_concurrent_content")
                = content_len - BytesOnDisk

C3_Witness ==
    /\ path = "concurrent"
    /\ pc = "finish"
    /\ conf.bytes_on_disk # None
    /\ Len(hooks) = 2
    /\ Fired(2, "on_concurrent_content") >= 2
    /\ SumBytes(hooks[2], "on_concurrent_content") = content_len - BytesOnDisk

\* The chunks submitted at the start of the concurrent path (183-188): all
\* of submitted but the ranges resubmitted after a failure.
InitialChunks ==
    {submitted[i] : i \in 1..(Len(submitted) - Len(taken))}

\* C4: if the task of an initial chunk failed, it was the only failure, the
\* resubmitted task ended without failing and the orchestrator has consumed
\* every data message, then every hook was handed each byte of the chunk
\* exactly once and the retry counter has increased by exactly one.
C4_RetryDeliversChunkOnce ==
    \A f \in finished :
        ( /\ pc = "loop"
          /\ path = "concurrent"
          /\ data = <<>>
          /\ failures = 1
          /\ ~f.ok
          /\ f.offsets \in InitialChunks
          /\ \E g \in finished :
                g.ok /\ g.offsets = FailedRange(f.offsets, f.start_offset) )
        => /\ retries = 1
           /\ \A h \in Hooks :
                \A o \in f.offsets[1]..Min(f.offsets[2], resource_len - 1) :
                    DeliveredTimes(h, o) = 1

\* C5: for content_len >= 1 and chunk_size >= 1 the list returned by
\* get_chunk_offsets is non-empty, its first range starts at 0, every range
\* has start <= end, every later range starts at the end of the one before
\* plus 1, and the last range ends at content_len.
C5_PartitionContiguous ==
    p_done =>
        /\ Len(p_out) >= 1
        /\ p_out[1][1] = 0
        /\ p_out[Len(p_out)][2] = p_len
        /\ \A i \in 1..Len(p_out) :
              /\ p_out[i][1] <= p_out[i][2]
              /\ i > 1 => p_out[i][1] = p_out[i - 1][2] + 1

C5_Witness ==
    /\ p_done
    /\ Len(p_out) >= 3
    /\ p_len % p_size # 0
    /\ p_out[Len(p_out)][2] - p_out[Len(p_out)][1] > p_size

\* C6 as stated: get_chunk_offsets(2500, 1000) returns the three ranges
\* (0,999), (1000,1999), (2000,2500).
C6_ThreeRanges ==
    (p_done /\ p_len = 2500 /\ p_size = 1000) =>
        p_out = << <<0, 999>>, <<1000, 1999>>, <<2000, 2500>> >>

\* C6 as amended: get_chunk_offsets(2500, 1000) returns the two ranges
\* (0,999), (1000,2500).
C6_TwoRanges ==
    (p_done /\ p_len = 2500 /\ p_size = 1000) =>
        p_out = << <<0, 999>>, <<1000, 2500>> >>

C6_Witness ==
    /\ p_done
    /\ p_len = 2500
    /\ p_size = 1000
    /\ Len(p_out) = 2

\* C7: once download() has chosen a path, it is the concurrent path exactly
\* when the probe response has Accept-Ranges "bytes", the configuration
\* requests concurrency and the probe response carries Content-Length; on
\* the single-stream path no worker task is ever submitted.
C7_PathSelection ==
    path \in {"single", "concurrent"} =>
        /\ path = "concurrent" <=>
              ( /\ resp.accept_ranges = Some("bytes")
                /\ conf.concurrent
                /\ resp.content_length # None )
        /\ path = "single" =>
              (submitted = <<>> /\ queue = <<>> /\ running = {} /\ finished = {})

C7_Witness ==
    /\ path = "single"
    /\ result = "Ok"
    /\ resp.accept_ranges = Some("bytes")
    /\ conf.concurrent
    /\ resp.content_length = None
    /\ submitted = <<>>

\* C8 as stated: on_server_supports_resume is fired and the caller's Range
\* header is dropped exactly when the probe response has Accept-Ranges
\* "bytes", the caller's headers hold Range and concurrency is requested.
C8_ResumeOnlyWhenConcurrent ==
    pc # "idle" =>
        LET all3 == /\ resp.accept_ranges = Some("bytes")
                    /\ range_before
                    /\ conf.concurrent
        IN  /\ \A h \in Hooks :
                  Fired(h, "on_server_supports_resume") = IF all3 THEN 1 ELSE 0
            /\ conf.has_range = (range_before /\ ~all3)

\* C8 as amended: on_server_supports_resume is fired exactly when the probe
\* response has Accept-Ranges "bytes" and the caller's headers hold Range;
\* the Range header is dropped exactly when, in addition, concurrency is
\* requested, and the headers are left unchanged otherwise.
C8_ResumeWhenRangeSupported ==
    pc # "idle" =>
        LET both == resp.accept_ranges = Some("bytes") /\ range_before
        IN  /\ \A h \in Hooks :
                  Fired(h, "on_server_supports_resume") = IF both THEN 1 ELSE 0
            /\ conf.has_range = (range_before /\ ~(both /\ conf.concurrent))

C8_Witness ==
    /\ pc # "idle"
    /\ Len(hooks) = 2
    /\ resp.accept_ranges = Some("bytes")
    /\ range_before
    /\ ~conf.concurrent
    /\ Fired(2, "on_server_supports_resume") = 1
    /\ conf.has_range

ContentEvents == {"on_content", "on_concurrent_content"}

\* C9: in a download() call every hook is handed on_headers before any content event; on_finish
\* is handed exactly once, as the last event, when download() has returned
\* success, and not at all before that or when it has returned a failure.
C9_HeadersFirstFinishOnSuccess ==
    path # "direct" => \A h \in Hooks :
        /\ \A i \in 1..Len(hooks[h]) :
              hooks[h][i].ev \in ContentEvents =>
                  \E j \in 1..(i - 1) : hooks[h][j].ev = "on_headers"
        /\ result = "Ok" =>
              /\ Fired(h, "on_finish") = 1
              /\ hooks[h][Len(hooks[h])].ev = "on_finish"
        /\ result # "Ok" => Fired(h, "on_finish") = 0

C9_Witness ==
    /\ result = "Ok"
    /\ path = "concurrent"
    /\ Len(hooks) = 2
    /\ Fired(2, "on_concurrent_content") >= 2
    /\ Fired(2, "on_finish") = 1

\* C10: every event handed to one registered hook was handed to every other
\* registered hook as well, in the same order.
C10_EveryHookSeesEveryEvent ==
    \A h1, h2 \in Hooks : hooks[h1] = hooks[h2]

\* C11: a step in which on_max_retries is fired leaves the aggregation loop
\* running and download() without a result, and resubmits the failed range
\* it took from the error channel as a new task.
C11_MaxRetriesNotFatal ==
    [][ (\E h \in Hooks :
            Fired(h, "on_max_retries")' > Fired(h, "on_max_retries"))
        => /\ pc' = "loop"
           /\ result' = "none"
           /\ errors # <<>>
           /\ errors' = Tail(errors)
           /\ queue' = Append(queue, Head(errors))
           /\ submitted' = Append(submitted, Head(errors)) ]_vars

\* download() returned success although on_max_retries was fired on the way.
C11_Witness ==
    /\ result = "Ok"
    /\ path = "concurrent"
    /\ Len(hooks) = 2
    /\ Fired(2, "on_max_retries") >= 1
    /\ retries > conf.max_retries + 1

\* C12: on the concurrent path every hook that was handed a content event was
\* handed on_content_length before it, and on_headers before that.
C12_ContentLengthBeforeContent ==
    path = "concurrent" =>
        \A h \in Hooks : \A i \in 1..Len(hooks[h]) :
            hooks[h][i].ev = "on_concurrent_content" =>
                \E j \in 1..(i - 1) :
                    /\ hooks[h][j].ev = "on_content_length"
                    /\ \E k \in 1..(j - 1) : hooks[h][k].ev = "on_headers"

\* C13: on the single-stream path a read of n > 0 bytes is handed to
\* on_content of every hook once, appended to what the hook was handed
\* before, at the offset the bytes were read from; a read of no bytes is
\* handed to no hook and ends the reading; the reading also ends when the
\* cumulative count equals the known content length, and only then; no read
\* is issued once the count equals the known content length, and no
\* on_content event has an empty buffer.
C13_SingleStreamReads ==
    [][ pc = "read" =>
          LET n == cnt' - cnt
              e == Event("on_content", n,
                         BodyStart(conf.has_range,
                                   ServerSupportsBytes(resp.accept_ranges)) + cnt)
          IN  /\ n >= 0
              /\ Some(cnt) # ct_len
              /\ n = 0 => /\ hooks' = hooks
                          /\ pc' \in {"read", "finish", "done"}
                          /\ pc' = "finish" => result' = "none"
                          /\ pc' = "done" => result' = "Err"
                          /\ pc' = "read" => UNCHANGED vars
              /\ n > 0 => /\ \A h \in Hooks : hooks'[h] = Append(hooks[h], e)
                          /\ result' = "none" =>
                                pc' = IF Some(cnt') = ct_len THEN "finish"
                                      ELSE "read"
                          /\ result' # "none" => pc' = "done"
    ]_vars

\* C14: a read of the single-stream path that returns an I/O error makes
\* download() return a failure at once: the retry counter and the events
\* handed to the hooks so far stay as they are, and after the failure no read
\* is issued and no content or finished event is handed to a hook.
C14_SingleReadErrorAborts ==
    [][ /\ (pc = "read" /\ failures' # failures) =>
              /\ result' = "Err"
              /\ pc' = "done"
              /\ UNCHANGED <<hooks, retries, cnt>>
        /\ (path = "single" /\ result = "Err") =>
              /\ UNCHANGED <<retries, cnt, result, pc>>
              /\ \A h \in Hooks : hooks'[h] = hooks[h]
              /\ \A h \in Hooks : Fired(h, "on_finish") = 0
    ]_vars

\* A single-stream download that failed on a read after content was handed
\* to the hook.
C14_Witness ==
    /\ path = "single"
    /\ result = "Err"
    /\ failures = 1
    /\ retries = 0
    /\ Len(hooks) >= 1
    /\ Fired(1, "on_content") >= 1
    /\ Fired(1, "on_finish") = 0
    /\ SumBytes(hooks[1], "on_content") = cnt

\* The ranges of seq as a set.
RangesOf(seq) == {seq[i] : i \in 1..Len(seq)}

\* The failed ranges the orchestrator took are the last tasks it submitted,
\* in the order taken (201, 210-213).
ResubmittedAsTaken ==
    /\ Len(taken) <= Len(submitted)
    /\ \A i \in 1..Len(taken) :
           submitted[Len(submitted) - Len(taken) + i] = taken[i]

\* C15 as stated: every range on the error channel, and every range the
\* orchestrator took from it and resubmitted, is the original (start, end)
\* of a task that failed.
C15_OriginalRangeReported ==
    /\ \A r \in RangesOf(errors) \cup RangesOf(taken) :
           \E f \in finished : ~f.ok /\ r = f.offsets
    /\ ResubmittedAsTaken

\* C15, amended: a task advances its start offset by every byte count it
\* sent; every range on the error channel, and every range the orchestrator
\* took from it and resubmitted, is (start offset reached, end) of a task
\* that failed: the part of the chunk that was not sent.
C15_RemainderReported ==
    /\ \A w \in running : w.start_offset = w.offsets[1] + w.cnt
    /\ \A r \in RangesOf(errors) \cup RangesOf(taken) :
           \E f \in finished :
               /\ ~f.ok
               /\ f.start_offset >= f.offsets[1]
               /\ r = <<f.start_offset, f.offsets[2]>>
    /\ ResubmittedAsTaken

\* A task failed after sending bytes and the rest of its chunk was
\* resubmitted.
C15_Witness ==
    \E f \in finished :
        /\ ~f.ok
        /\ f.start_offset > f.offsets[1]
        /\ <<f.start_offset, f.offsets[2]>> \in RangesOf(taken)
        /\ <<f.start_offset, f.offsets[2]>> \in RangesOf(submitted)
        /\ f.offsets \notin RangesOf(taken)

\* C16: retries counts the failed ranges the orchestrator took, and
\* on_max_retries was fired for exactly those after the first max_retries of
\* them: not for the first max_retries failures, once for the one after them
\* and once for every later one.
C16_FiredFromFailureAfterBudget ==
    path = "concurrent" =>
        /\ retries = Len(taken)
        /\ \A h \in Hooks :
               Fired(h, "on_max_retries") =
                   IF retries > conf.max_retries
                   THEN retries - conf.max_retries ELSE 0

\* C17: a task for a chunk (start, end) with start <= end whose offsets all
\* lie in the resource, and that ended without a failure, advanced its start
\* offset from start by the byte counts it sent up to end + 1: it sent
\* (end - start) + 1 bytes, also when start = end.
C17_TaskCoversItsChunk ==
    /\ \A w \in running : w.start_offset = w.offsets[1] + w.cnt
    /\ \A f \in finished :
           (f.ok /\ f.offsets[1] <= f.offsets[2] /\ f.offsets[2] < resource_len)
               => f.start_offset - f.offsets[1] = (f.offsets[2] - f.offsets[1]) + 1

\* The tasks a thread of some pool has taken and not ended: those of the
\* running call and those of the pools earlier calls left behind.
RECURSIVE OrphanTasks(_)
OrphanTasks(pools) ==
    IF pools = <<>> THEN 0
    ELSE Cardinality(Head(pools).running) + OrphanTasks(Tail(pools))

Executing == Cardinality(running) + OrphanTasks(orphans)

\* C18: while the aggregation loop of a download() call runs at most num_workers chunk-fetch
\* tasks execute, initial and resubmitted ones alike; every submitted task
\* is waiting in the pool's queue, executing, or has ended, and the waiting
\* tasks are the last submitted ones in submission order.
C18_AtMostNumWorkersRunning ==
    (InLoop /\ path = "concurrent") =>
        /\ Executing <= conf.num_workers
        /\ \A r \in RangesOf(submitted) :
               \/ r \in RangesOf(queue)
               \/ \E w \in running : w.offsets = r
               \/ \E f \in finished : f.offsets = r
        /\ Len(queue) + Cardinality(running) <= Len(submitted)
        /\ \A i \in 1..Len(queue) :
               queue[i] = submitted[Len(submitted) - Len(queue) + i]

\* C19: every download() call on an object starts its transfer with the
\* retry counter at 0.
C19_EachCallStartsAtZeroRetries ==
    pc \in {"single", "concurrent"} => retries = 0

\* C20: while the aggregation loop of a download() call runs, count lies between bytes_on_disk
\* (0 when absent) and the content length.
C20_CountWithinBounds ==
    (InLoop /\ path = "concurrent") =>
        (BytesOnDisk <= count /\ count <= content_len)

=============================================================================
